---- MODULE Spec2Model ----
(***************************************************************************)
(* setup_restic.py: the provisioning pipeline                              *)
(*   load_config -> task_install -> task_setup -> task_backup_script       *)
(*   -> task_cron                                                          *)
(* and the shell script that task_backup_script renders, run by a small    *)
(* model of bash (errexit, "|| true" lists, $?).                           *)
(*                                                                         *)
(* Texts (.bashrc, the schedule table, the exclude file) are sequences of  *)
(* tokens, "\n" being a token of its own, so that string concatenation and *)
(* the substring tests of the code are computed and not assumed.           *)
(***************************************************************************)
EXTENDS Integers, Sequences, FiniteSets, TLC

\* ------------------------------------------------------------------ bounds
MaxServices == 2
MaxRuns == 2
MaxRcLines == 2
MaxCronLines == 2

\* ------------------------------------------------------- program constants
Mode600 == 384
Mode755 == 493

CONFIG_REQUIRED == {"backup_password", "exclude_paths", "repository", "source_paths"}
DEFAULT_VERSION == "0.18.1"
DEFAULT_SCHEDULE == "0 12 * * *"
EXPORT_LINE == "export PATH=$PATH:$HOME/bin"
JOB_COMMAND == "/home/user/bin/restic-custom-backup"
NL == "\n"
SP == " "

\* config.get(key, default): NoKey stands for a key the configuration lacks.
NoKey == "<no key>"
Get(v, default) == IF v = NoKey THEN default ELSE v

\* The state of a process that has not exited.
Running == 0 - 1
\* Exit status of the interpreter for sys.exit(1) and for an uncaught exception.
ExitFailure == 0 + 1

\* Mode of a file created by open(path, 'w') under the usual umask 022.
CreatedMode == (6 * 64) + (4 * 8) + 4
ReadOnlyMode == (4 * 64) + (4 * 8) + 4
OwnerWritable(mode) == (mode \div 128) % 2 = 1

\* ------------------------------------------------------------------- texts
\* Tokens of a text that hold the string "$HOME/bin" (EXPORT_LINE is one).
LOOSE_LINE == "PATH=$HOME/bin:$PATH"
OTHER_RC == "alias ll=ls"
HasHomeBin(tok) == tok \in {EXPORT_LINE, LOOSE_LINE}

\* Tokens of a text that hold the string JOB_COMMAND.
JOB_OLD == "/home/user/bin/restic-custom-backup.old"
OTHER_JOB == "@daily /usr/bin/updatedb"
OTHER_SCHEDULE == "30 2 * * *"
HasJob(tok) == tok \in {JOB_COMMAND, JOB_OLD}

\* `needle in text` for the needles the code searches for.
ExportLineIn(text) == \E i \in 1..Len(text) : text[i] = EXPORT_LINE
HomeBinIn(text) == \E i \in 1..Len(text) : HasHomeBin(text[i])
JobIn(text) == \E i \in 1..Len(text) : HasJob(text[i])

\* The number of lines of a text (the segments between newlines) that hold
\* the string JOB_COMMAND.
SameLine(text, i, j) == \A k \in i..(j - 1) : text[k] # NL
JobLines(text) ==
    Cardinality({i \in 1..Len(text) :
        /\ HasJob(text[i])
        /\ \A j \in 1..(i - 1) : ~(HasJob(text[j]) /\ SameLine(text, j, i))})

RECURSIVE Join(_, _)
\* sep.join(list)
Join(sep, list) ==
    IF list = <<>> THEN <<>>
    ELSE IF Len(list) = 1 THEN <<list[1]>>
    ELSE <<list[1], sep>> \o Join(sep, Tail(list))

RECURSIVE Concat(_)
Concat(seqs) == IF seqs = <<>> THEN <<>> ELSE seqs[1] \o Concat(Tail(seqs))

\* ------------------------------------------------------------------- files
NoFile == [exists |-> FALSE, content |-> <<>>, mode |-> 0]
File(content, mode) == [exists |-> TRUE, content |-> content, mode |-> mode]
NoBinary == [exists |-> FALSE, version |-> "", owner |-> ""]
Binary(version, owner) == [exists |-> TRUE, version |-> version, owner |-> owner]

VARIABLES
    cfg,     \* config.json: present or not, and its parsed content
    host,    \* the filesystem, the search path and the schedule table
    pc,      \* the stage main() is about to run
    run,     \* which run of main() this is
    status,  \* exit status of the current run (Running while it runs)
    stages,  \* the stages the current run has executed, in order
    host0,   \* history: host at the start of the current run
    done,    \* history: host at the end of each run that reached "Setup complete!"
    cronLog, \* history: the table before and after each task_cron
    err,     \* what the current run reported before it ended ("" when nothing)
    sh       \* the shell running the generated script

vars == <<cfg, host, pc, run, status, stages, host0, done, cronLog, err, sh>>


\* ----------------------------------------------------------- configuration
SERVICES == {"db", "web", "mail"}
PathOf(service) ==
    CASE service = "db" -> "/var/lib/db"
      [] service = "web" -> "/srv/web"
      [] OTHER -> "/var/mail"

SeqsUpTo(S, n) == UNION {[1..k -> S] : k \in 0..n}

\* A JSON object keeps one value per key: the mapping is a list of pairs
\* with distinct service names, in the order of the file.
SourceMaps ==
    {[i \in 1..Len(names) |-> [service |-> names[i], path |-> PathOf(names[i])]] :
        names \in {q \in SeqsUpTo(SERVICES, MaxServices) :
                      \A i, j \in 1..Len(q) : i # j => q[i] # q[j]}}

BaseConfig ==
    [exists |-> TRUE,
     keys |-> CONFIG_REQUIRED,
     backup_password |-> "secret",
     exclude_paths |-> <<"*.tmp", "cache">>,
     repository |-> "/mnt/backup/repo",
     source_paths |-> <<[service |-> "db", path |-> "/var/lib/db"],
                        [service |-> "web", path |-> "/srv/web"]>>,
     healthcheck_url |-> "https://hc.example/ping",
     cron_schedule |-> NoKey,
     restic_version |-> NoKey]

\* All required keys, or all but one, or no config.json at all.
KeyChoices ==
    {[BaseConfig EXCEPT !.keys = CONFIG_REQUIRED \ missing] :
        missing \in {{}} \cup {{k} : k \in CONFIG_REQUIRED}}
    \cup {[BaseConfig EXCEPT !.exists = FALSE]}

ScriptConfigs ==
    {[BaseConfig EXCEPT !.source_paths = sp, !.healthcheck_url = url,
                        !.exclude_paths = ex] :
        sp \in SourceMaps,
        url \in {NoKey, "https://hc.example/ping"},
        ex \in {<<>>, <<"*.tmp">>, <<"*.tmp", "cache">>}}

CronConfigs ==
    {[BaseConfig EXCEPT !.cron_schedule = s] : s \in {NoKey, OTHER_SCHEDULE}}

VersionConfigs ==
    {[c EXCEPT !.restic_version = v] : c \in KeyChoices, v \in {NoKey, "0.17.3"}}

\* -------------------------------------------------------------------- host
RcTexts ==
    {Concat(ls) : ls \in SeqsUpTo({<<OTHER_RC, NL>>, <<LOOSE_LINE, NL>>,
                                   <<EXPORT_LINE, NL>>}, MaxRcLines)}

\* crontab(1) installs only tables whose last line ends in a newline.
CronTexts ==
    {Concat(ls) : ls \in SeqsUpTo({<<OTHER_JOB, NL>>,
                                   <<OTHER_SCHEDULE, SP, JOB_OLD, NL>>,
                                   <<OTHER_SCHEDULE, SP, JOB_COMMAND, NL>>},
                                  MaxCronLines)}

OldScript == <<[op |-> "old", a |-> "", b |-> ""]>>

\* A host with restic on the search path that was never set up.
BaseHost ==
    [onPath |-> TRUE,
     usrLocalOnPath |-> TRUE,
     bin |-> NoBinary,
     tmpbz2 |-> FALSE,
     tmprestic |-> FALSE,
     dirs |-> FALSE,
     passwd |-> NoFile,
     exclude |-> NoFile,
     script |-> NoFile,
     bashrc |-> File(<<OTHER_RC, NL>>, CreatedMode),
     cron |-> File(<<OTHER_JOB, NL>>, 0),
     nodename |-> "host1"]

InstallHosts ==
    {[BaseHost EXCEPT !.onPath = p, !.usrLocalOnPath = u, !.bin = b, !.tmpbz2 = t] :
        p \in BOOLEAN, u \in BOOLEAN, t \in BOOLEAN,
        b \in {NoBinary, Binary("0.16.0", "user")}}

FileHosts ==
    {[BaseHost EXCEPT !.dirs = (pw.exists \/ prior),
                      !.passwd = pw,
                      !.exclude = IF prior THEN File(<<"old">>, CreatedMode) ELSE NoFile,
                      !.script = IF prior THEN File(OldScript, Mode755) ELSE NoFile,
                      !.bashrc = rc] :
        pw \in {NoFile, File(<<"old">>, CreatedMode), File(<<"old">>, ReadOnlyMode)},
        prior \in BOOLEAN,
        rc \in {NoFile} \cup {File(t, CreatedMode) : t \in RcTexts}}

CronHosts ==
    {[BaseHost EXCEPT !.cron = c] :
        c \in {NoFile} \cup {File(t, 0) : t \in CronTexts}}

\* One part of the world varies at a time; the stages read disjoint parts.
Scenarios ==
    (ScriptConfigs \X {BaseHost})
    \cup (VersionConfigs \X InstallHosts)
    \cup (KeyChoices \X FileHosts)
    \cup (CronConfigs \X CronHosts)

ShellIdle ==
    [pc |-> 0, errexit |-> FALSE, FAILURE |-> "", HEALTHCHECK_URL |-> "",
     last |-> 0, exit |-> Running, backups |-> <<>>, forgets |-> <<>>,
     failed |-> {}]

Init ==
    /\ \E sc \in Scenarios : cfg = sc[1] /\ host = sc[2]
    /\ pc = "load"
    /\ run = 1
    /\ status = Running
    /\ stages = <<>>
    /\ host0 = host
    /\ done = <<>>
    /\ cronLog = <<>>
    /\ err = ""
    /\ sh = ShellIdle


\* ------------------------------------------------------------ process exit
\* sys.exit(1), or an exception nobody catches: the run is over, and what
\* was printed on the way out is kept.
Exit(code, report) ==
    /\ pc' = "exit"
    /\ status' = code
    /\ err' = report

Continue(stage) ==
    /\ pc' = stage
    /\ status' = status
    /\ err' = err

\* ------------------------------------------------------------- load_config
\* A missing config.json is the only thing load_config checks.
LoadConfig ==
    /\ pc = "load"
    /\ stages' = Append(stages, "load")
    /\ IF ~cfg.exists
       THEN Exit(ExitFailure, "[ERROR] config.json not found")
       ELSE Continue("install")
    /\ UNCHANGED <<cfg, host, run, host0, done, cronLog, sh>>

\* ------------------------------------------------------------ task_install
\* A slip: the test looks at the install target only, not at the search path.
check_command_target_only(h) == h.bin.exists

\* shutil.which("restic"): some directory of the search path holds restic.
check_command(h) == h.onPath \/ (h.usrLocalOnPath /\ h.bin.exists)

\* The points at which the try block can raise, and "none".
InstallOutcomes == {"connect", "transfer", "decompress", "mv", "chown", "none"}

\* The try block, up to the point where it raises.
TryInstall(h, version, failAt) ==
    CASE failAt = "connect" -> h
      [] failAt = "transfer" -> [h EXCEPT !.tmpbz2 = TRUE]
      [] failAt = "decompress" -> [h EXCEPT !.tmpbz2 = TRUE, !.tmprestic = TRUE]
      [] failAt = "mv" -> [h EXCEPT !.tmpbz2 = TRUE, !.tmprestic = TRUE]
      [] failAt = "chown" ->
            [h EXCEPT !.tmpbz2 = TRUE, !.tmprestic = FALSE,
                      !.bin = Binary(version, "user")]
      [] OTHER ->
            [h EXCEPT !.tmpbz2 = TRUE, !.tmprestic = FALSE,
                      !.bin = Binary(version, "root")]

\* A slip: no cleanup on the way out.
InstallCleanupMissing(h) == h

\* The finally clause: it runs on every way out of the try block.
InstallCleanup(h) == [h EXCEPT !.tmpbz2 = FALSE]

TaskInstall ==
    /\ pc = "install"
    /\ stages' = Append(stages, "install")
    /\ IF check_command(host)
       THEN /\ host' = host
            /\ Continue("setup")
       ELSE \E failAt \in InstallOutcomes :
            /\ host' = InstallCleanup(
                   TryInstall(host, Get(cfg.restic_version, DEFAULT_VERSION), failAt))
            /\ IF failAt = "none"
               THEN Continue("setup")
               ELSE Exit(ExitFailure, "[ERROR] Failed to install restic")
    /\ UNCHANGED <<cfg, run, host0, done, cronLog, sh>>

\* -------------------------------------------------------------- task_setup
\* A step's outcome: the host it leaves and whether it raised.
Ok(h) == [h |-> h, ok |-> TRUE]
Raised(h) == [h |-> h, ok |-> FALSE]

MkDirs(h) == [h EXCEPT !.dirs = TRUE]

\* open(path, 'w'): creates the file or empties it; the mode of a file that
\* exists is kept.
OpenW(f) == File(<<>>, IF f.exists THEN f.mode ELSE CreatedMode)

\* A slip: the chmod is left out.
ChmodPasswdMissing(f) == f

ChmodPasswd(f) == [f EXCEPT !.mode = Mode600]

\* `denied`: open() refuses a file its owner may not write (it does not when
\* the process is privileged).
WritePasswd(h, c, denied) ==
    IF h.passwd.exists /\ ~OwnerWritable(h.passwd.mode) /\ denied
    THEN Raised(h)
    ELSE IF "backup_password" \notin c.keys
    THEN Raised([h EXCEPT !.passwd = OpenW(h.passwd)])
    ELSE Ok([h EXCEPT !.passwd =
                ChmodPasswd([OpenW(h.passwd) EXCEPT !.content = <<c.backup_password>>])])

WriteExclude(h, c) ==
    IF "exclude_paths" \notin c.keys
    THEN Raised([h EXCEPT !.exclude = OpenW(h.exclude)])
    ELSE Ok([h EXCEPT !.exclude =
                [OpenW(h.exclude) EXCEPT !.content = Join(NL, c.exclude_paths)]])

\* The export line holds "$HOME/bin", so the second test decides.
UpdateBashrc(h) ==
    IF /\ h.bashrc.exists
       /\ ~ExportLineIn(h.bashrc.content)
       /\ ~HomeBinIn(h.bashrc.content)
    THEN [h EXCEPT !.bashrc.content = @ \o <<NL, EXPORT_LINE, NL>>]
    ELSE h

SetupResult(h, c, denied) ==
    LET r1 == WritePasswd(MkDirs(h), c, denied)
        r2 == WriteExclude(r1.h, c)
    IN  IF ~r1.ok THEN r1
        ELSE IF ~r2.ok THEN r2
        ELSE Ok(UpdateBashrc(r2.h))

TaskSetup ==
    /\ pc = "setup"
    /\ stages' = Append(stages, "setup")
    /\ \E denied \in BOOLEAN :
         LET r == SetupResult(host, cfg, denied)
         IN  /\ host' = r.h
             /\ IF r.ok
                THEN Continue("backup_script")
                ELSE Exit(ExitFailure, "Traceback")
    /\ UNCHANGED <<cfg, run, host0, done, cronLog, sh>>


\* ------------------------------------------------------ task_backup_script
\* The script is a list of commands, one record per command or block of the
\* template, in the order of the text.
Cmd(op, a, b) == [op |-> op, a |-> a, b |-> b]

KEEP_OPTIONS == "--keep-hourly 2 --keep-daily 6 --keep-weekly 3 --keep-monthly 1"

\* A slip: `sources_block = ...` for `+=`, which keeps the last block only.
SourcesBlockAssigned(source_paths) ==
    IF source_paths = <<>> THEN <<>>
    ELSE <<Cmd("backup", source_paths[Len(source_paths)].service,
               source_paths[Len(source_paths)].path)>>

\* Per service: echo, `restic backup --tag service path`, echo of the stats.
SourcesBlock(source_paths) ==
    [i \in 1..Len(source_paths) |->
        Cmd("backup", source_paths[i].service, source_paths[i].path)]

\* Per service: `restic forget --tag service $KEEP_OPTIONS ... || true`.
ForgetBlock(source_paths) ==
    [i \in 1..Len(source_paths) |->
        Cmd("forget", source_paths[i].service, "$KEEP_OPTIONS")]

ScriptContent(c, h) ==
    << Cmd("set", "-euo pipefail", ""),
       Cmd("assign", "RESTIC_PASSWD", "/home/user/.restic/.restic_passwd"),
       Cmd("assign", "RESTIC_EXCLUDE_FILE", "/home/user/.restic/.restic_exclude"),
       Cmd("assign", "BACKUP_REPO", c.repository),
       Cmd("assign", "KEEP_OPTIONS", KEEP_OPTIONS),
       Cmd("assign", "HOST_TAG", h.nodename),
       Cmd("assign", "HEALTHCHECK_URL", Get(c.healthcheck_url, "")),
       Cmd("assign", "FAILURE", "0"),
       Cmd("begin", "", ""),
       Cmd("init", "", ""),
       Cmd("unlock", "", "") >>
    \o SourcesBlock(c.source_paths)
    \o ForgetBlock(c.source_paths)
    \o << Cmd("finish", "", "") >>

\* config['source_paths'] and config['repository'] are read while the text is
\* built, before the file is opened.
ScriptResult(h, c) ==
    IF "source_paths" \notin c.keys \/ "repository" \notin c.keys
    THEN Raised(h)
    ELSE Ok([h EXCEPT !.script = File(ScriptContent(c, h), Mode755)])

TaskBackupScript ==
    /\ pc = "backup_script"
    /\ stages' = Append(stages, "backup_script")
    /\ LET r == ScriptResult(host, cfg)
       IN  /\ host' = r.h
           /\ IF r.ok
              THEN Continue("cron")
              ELSE Exit(ExitFailure, "Traceback")
    /\ UNCHANGED <<cfg, run, host0, done, cronLog, sh>>

\* --------------------------------------------------------------- task_cron
\* `crontab -l`: its output, or "" when it exits non-zero, which it does
\* when the user has no table and may do for any other reason.
ReadCrontab(h, readFails) ==
    IF readFails \/ ~h.cron.exists THEN <<>> ELSE h.cron.content

NewCronLine(c) == <<Get(c.cron_schedule, DEFAULT_SCHEDULE), SP, JOB_COMMAND, NL>>

\* `crontab -` replaces the whole table by what it reads.
CronResult(h, c, readFails) ==
    LET current_cron == ReadCrontab(h, readFails)
    IN  IF JobIn(current_cron)
        THEN h
        ELSE [h EXCEPT !.cron = File(current_cron \o NewCronLine(c), 0)]

TaskCron ==
    /\ pc = "cron"
    /\ stages' = Append(stages, "cron")
    /\ \E readFails \in BOOLEAN :
         /\ host' = CronResult(host, cfg, readFails)
         /\ cronLog' = Append(cronLog, [before |-> host.cron, after |-> host'.cron])
         /\ done' = Append(done, host')
    /\ pc' = "done"
    /\ status' = 0
    /\ UNCHANGED <<cfg, run, host0, err, sh>>

\* -------------------------------------------------------------------- main
\* The tool is run again by hand, whatever the outcome of the run before.
Rerun ==
    /\ pc \in {"done", "exit"}
    /\ run < MaxRuns
    /\ sh.pc = 0
    /\ pc' = "load"
    /\ run' = run + 1
    /\ status' = Running
    /\ stages' = <<>>
    /\ host0' = host
    /\ err' = ""
    /\ UNCHANGED <<cfg, host, done, cronLog, sh>>


\* ---------------------------------------------- the generated script, run
\* Exit statuses of a restic command: success, error, incomplete backup.
ResticStatus == {0, 1, 3}

Script == host.script.content
ShAt(op) ==
    /\ sh.pc \in 1..Len(Script)
    /\ sh.exit = Running
    /\ Script[sh.pc].op = op

\* A command on its own: under errexit a non-zero status ends the script
\* with that status.
Simple(s, rc) ==
    IF rc # 0 /\ s.errexit
    THEN [s EXCEPT !.exit = rc, !.last = rc]
    ELSE [s EXCEPT !.pc = @ + 1, !.last = rc]

\* `command || true`: the status of the list is 0 whatever the command's.
OrTrue(s, rc) == [s EXCEPT !.pc = @ + 1, !.last = 0]

Note(s, op, rc) == IF rc # 0 THEN [s EXCEPT !.failed = @ \cup {op}] ELSE s

\* `exit $FAILURE`; an unset variable is an error under `set -u`.
ExitArg(v) == IF v = "0" THEN 0 ELSE 1

\* The scheduler (or the user) starts the script once setup is complete.
RunScript ==
    /\ pc = "done"
    /\ sh.pc = 0
    /\ host.script.exists
    /\ sh' = [ShellIdle EXCEPT !.pc = 1]
    /\ UNCHANGED <<cfg, host, pc, run, status, stages, host0, done, cronLog, err>>

\* set -euo pipefail
ShSet ==
    /\ ShAt("set")
    /\ sh' = [sh EXCEPT !.pc = @ + 1, !.errexit = TRUE]
    /\ UNCHANGED <<cfg, host, pc, run, status, stages, host0, done, cronLog, err>>

\* NAME="value"
ShAssign ==
    /\ ShAt("assign")
    /\ LET c == Script[sh.pc]
       IN  sh' = CASE c.a = "FAILURE" -> [sh EXCEPT !.pc = @ + 1, !.FAILURE = c.b]
                   [] c.a = "HEALTHCHECK_URL" ->
                        [sh EXCEPT !.pc = @ + 1, !.HEALTHCHECK_URL = c.b]
                   [] OTHER -> [sh EXCEPT !.pc = @ + 1]
    /\ UNCHANGED <<cfg, host, pc, run, status, stages, host0, done, cronLog, err>>

\* exec >> log; echo; the start ping, `curl ... || true`, when a URL is set.
ShBegin ==
    /\ ShAt("begin")
    /\ sh' = [sh EXCEPT !.pc = @ + 1, !.last = 0]
    /\ UNCHANGED <<cfg, host, pc, run, status, stages, host0, done, cronLog, err>>

\* if ! restic cat config; then echo; restic init; fi
ShInit ==
    /\ ShAt("init")
    /\ \E present \in BOOLEAN, rc \in ResticStatus :
         sh' = IF present
               THEN [sh EXCEPT !.pc = @ + 1, !.last = 0]
               ELSE Simple(Note(sh, "init", rc), rc)
    /\ UNCHANGED <<cfg, host, pc, run, status, stages, host0, done, cronLog, err>>

\* restic unlock || true
ShUnlock ==
    /\ ShAt("unlock")
    /\ \E rc \in ResticStatus : sh' = OrTrue(Note(sh, "unlock", rc), rc)
    /\ UNCHANGED <<cfg, host, pc, run, status, stages, host0, done, cronLog, err>>

\* echo; restic backup; echo "... $(restic stats)": the last echo sets $? to 0.
ShBackup ==
    /\ ShAt("backup")
    /\ \E rc \in ResticStatus :
         LET s1 == [Note(sh, "backup", rc) EXCEPT !.backups = Append(@, Script[sh.pc].a)]
             s2 == Simple(s1, rc)
         IN  sh' = IF s2.exit # Running THEN s2 ELSE [s2 EXCEPT !.last = 0]
    /\ UNCHANGED <<cfg, host, pc, run, status, stages, host0, done, cronLog, err>>

\* restic forget ... || true
ShForget ==
    /\ ShAt("forget")
    /\ \E rc \in ResticStatus :
         sh' = OrTrue([Note(sh, "forget", rc) EXCEPT !.forgets = Append(@, Script[sh.pc].a)],
                      rc)
    /\ UNCHANGED <<cfg, host, pc, run, status, stages, host0, done, cronLog, err>>

\* if [ $? -eq 0 ]; then ping; else FAILURE=1; fi; echo; exit $FAILURE
ShFinish ==
    /\ ShAt("finish")
    /\ LET s1 == IF sh.last = 0 THEN sh ELSE [sh EXCEPT !.FAILURE = "1"]
       IN  sh' = [s1 EXCEPT !.exit = ExitArg(s1.FAILURE), !.last = 0]
    /\ UNCHANGED <<cfg, host, pc, run, status, stages, host0, done, cronLog, err>>

\* ----------------------------------------------------------- specification
Next ==
    \/ LoadConfig
    \/ TaskInstall
    \/ TaskSetup
    \/ TaskBackupScript
    \/ TaskCron
    \/ Rerun
    \/ RunScript
    \/ ShSet
    \/ ShAssign
    \/ ShBegin
    \/ ShInit
    \/ ShUnlock
    \/ ShBackup
    \/ ShForget
    \/ ShFinish

Spec == Init /\ [][Next]_vars


\* ================================================================== claims
Services == [i \in 1..Len(cfg.source_paths) |-> cfg.source_paths[i].service]
Artifacts == {"passwd", "exclude", "script", "bashrc", "cron"}
IsBackup(c) == c.op = "backup"
IsForget(c) == c.op = "forget"

\* C1: a run on a configuration that lacks a required key never completes,
\* and when it has ended its exit status is non-zero and the password file,
\* the exclude file, the generated script, .bashrc and the schedule table
\* are as they were when the run started.
C1_MissingKeyExitsBeforeWriting ==
    (cfg.exists /\ cfg.keys # CONFIG_REQUIRED) =>
        /\ pc # "done"
        /\ pc = "exit" =>
              /\ status \notin {0, Running}
              /\ \A f \in Artifacts : host[f] = host0[f]

\* C2: when the table did not hold the script's path before the first
\* task_cron, then once task_cron has run twice or more the table holds
\* exactly one line with the script's path, and no run after the first
\* changed the table.
C2_CronTwiceOneEntry ==
    (Len(cronLog) >= 2 /\ ~JobIn(cronLog[1].before.content)) =>
        /\ JobLines(cronLog[Len(cronLog)].after.content) = 1
        /\ \A i \in 2..Len(cronLog) : cronLog[i].after = cronLog[i].before

\* C3: when the script has ended and a backup invocation failed, the backup
\* block and the retention block of every service were attempted, in order.
C3_LaterBlocksStillRun ==
    (sh.exit # Running /\ "backup" \in sh.failed) =>
        /\ sh.backups = Services
        /\ sh.forgets = Services

\* C4: the script exits 0 when the repository was there or was initialized
\* and every backup and retention step ran and succeeded; when a backup or
\* retention step failed, FAILURE is 1 and the script exits 1.
C4_ExitCodeConvention ==
    sh.exit # Running =>
        /\ (/\ "init" \notin sh.failed
            /\ sh.backups = Services
            /\ sh.forgets = Services
            /\ sh.failed \cap {"backup", "forget"} = {}) => sh.exit = 0
        /\ (sh.failed \cap {"backup", "forget"} # {}) =>
              (sh.FAILURE = "1" /\ sh.exit = 1)

\* C5: once task_backup_script has written the script, its backup blocks
\* are exactly one per entry of the source-path mapping, in the mapping's
\* order, each with that entry's service name as tag and that entry's path,
\* and its retention blocks are exactly one per entry, in the same order,
\* each with that entry's service name as tag.
C5_OneBlockPerService ==
    pc \in {"cron", "done"} =>
        LET B == SelectSeq(host.script.content, IsBackup)
            F == SelectSeq(host.script.content, IsForget)
        IN  /\ Len(B) = Len(cfg.source_paths)
            /\ Len(F) = Len(cfg.source_paths)
            /\ \A i \in 1..Len(cfg.source_paths) :
                 /\ B[i].a = cfg.source_paths[i].service
                 /\ B[i].b = cfg.source_paths[i].path
                 /\ F[i].a = cfg.source_paths[i].service

C5_Witness ==
    /\ pc = "cron"
    /\ Len(cfg.source_paths) = 2
    /\ cfg.source_paths[1].service = "web"
    /\ Len(SelectSeq(host.script.content, IsBackup)) = 2

\* C6: when the installer has reported a failure, the run has ended with a
\* non-zero exit status, /tmp/restic.bz2 does not exist, and no stage after
\* the installer has run.
C6_InstallFailureAborts ==
    err = "[ERROR] Failed to install restic" =>
        /\ pc = "exit"
        /\ status \notin {0, Running}
        /\ ~host.tmpbz2
        /\ stages = <<"load", "install">>
        /\ \A f \in Artifacts : host[f] = host0[f]

\* The download succeeded and a later step failed: the artifact had been
\* written, and is gone.
C6_Witness ==
    /\ err = "[ERROR] Failed to install restic"
    /\ host.tmprestic
    /\ ~host.tmpbz2

\* C7: every run of the whole pipeline that completes after the first
\* completed run leaves the password file, the exclude file, the generated
\* script, .bashrc and the schedule table as the first completed run left
\* them.
C7_SecondRunSameState ==
    \A i \in 2..Len(done) : \A f \in Artifacts : done[i][f] = done[1][f]

\* C8: when restic is on the search path as task_install starts, the host
\* after task_install is the host before it (nothing fetched, no temporary
\* file created or removed, /usr/local/bin/restic and its owner unchanged),
\* and the run goes on to task_setup.
C8_ResolvableNoInstall ==
    (/\ stages = <<"load", "install">>
     /\ (host0.onPath \/ (host0.usrLocalOnPath /\ host0.bin.exists))) =>
        /\ host = host0
        /\ pc = "setup"

\* restic is found elsewhere on the search path; /usr/local/bin holds none
\* and a stale /tmp/restic.bz2 is left alone.
C8_Witness ==
    /\ stages = <<"load", "install">>
    /\ pc = "setup"
    /\ host0.onPath /\ ~host0.bin.exists /\ host0.tmpbz2
    /\ host = host0

\* C9: once task_setup has completed, the password file holds the configured
\* secret and its mode is 0600: no bit for the group or for others.
C9_PasswdOwnerOnly ==
    pc \in {"backup_script", "cron", "done"} =>
        /\ host.passwd.exists
        /\ host.passwd.content = <<cfg.backup_password>>
        /\ host.passwd.mode = Mode600
        /\ host.passwd.mode % 64 = 0

\* The file was there before, with another content and a wider mode.
C9_Witness ==
    /\ pc = "backup_script"
    /\ host0.passwd.exists
    /\ host0.passwd.mode # Mode600
    /\ host0.passwd.content # <<cfg.backup_password>>
    /\ host.passwd.mode = Mode600

\* C10: the table after each task_cron is the table before it, or the table
\* before it followed by the one line `<schedule> <script-path>`.
C10_CronOnlyAppends ==
    \A i \in 1..Len(cronLog) :
        \/ cronLog[i].after = cronLog[i].before
        \/ cronLog[i].after.content = cronLog[i].before.content \o NewCronLine(cfg)

====
